---- MODULE Spec2Model ----
(***************************************************************************)
(* A model of app.py: the timestamp parser, the clip extraction engine     *)
(* (download_clip, download_clip_fast, download_clip_precise,              *)
(* generate_preview, trim_preview_video), the session globals and the      *)
(* event handlers wired to the interface.                                  *)
(*                                                                         *)
(* Text is a sequence of one-character strings, so that formatting and     *)
(* parsing are computed character by character as the code computes them.  *)
(***************************************************************************)
EXTENDS Integers, Sequences, FiniteSets, TLC

VARIABLES
    search_results,        \* global search_results: the list of video records
    selected_video,        \* global selected_video: None or a video record
    current_preview_path,  \* global current_preview_path: None or a path
    current_buffer_start,  \* global current_buffer_start
    current_buffer_end,    \* global current_buffer_end
    current_clip_info,     \* global current_clip_info
    page,                  \* which column is visible: "search" or "video"
    preview_editor,        \* whether the preview editor column is visible
    trim_start_slider,     \* value of the start slider
    trim_end_slider,       \* value of the end slider
    fs,                    \* the files of OUTPUT_DIR and PREVIEW_DIR
    pd,                    \* process_download: its position, locals and result
    dp,                    \* download_from_preview: its last call and result
    pt_lines,   \* parser harness: the lines the input text was built from
    pt_pairs,   \* parser harness: the (start, end) pairs the text renders, or <<>>
    pt_text,    \* parser harness: the text handed to parse_timestamps
    pt_clips,   \* parser harness: what parse_timestamps returned
    pt_pc,      \* parser harness: "input" before the call, "done" after it
    dc          \* download_clip called on its own: its arguments and its result

pt_vars == <<pt_lines, pt_pairs, pt_text, pt_clips, pt_pc>>

globals == <<search_results, selected_video, current_preview_path,
             current_buffer_start, current_buffer_end, current_clip_info>>

ui == <<page, preview_editor, trim_start_slider, trim_end_slider>>

\* the variables of the harnesses that call one function on its own
harness == <<pt_vars, dc>>

vars == <<globals, ui, fs, pd, dp, harness>>

\* Python's None where an integer may stand: a value that equals no Some(v)
None == [some |-> FALSE]
Some(v) == [some |-> TRUE, val |-> v]

(***************************************************************************)
(* Bounds of the model.                                                    *)
(***************************************************************************)
MaxLines == 3      \* lines of a free-form input text
MaxPairs == 2      \* pairs of a rendered input text
MaxStale == 3      \* clips of the earlier batch whose files are left over

(***************************************************************************)
(* Characters and strings.                                                 *)
(***************************************************************************)
Digits == <<"0", "1", "2", "3", "4", "5", "6", "7", "8", "9">>

IsDigit(c) == \E i \in 1..10 : Digits[i] = c

DigitVal(c) == (CHOOSE i \in 1..10 : Digits[i] = c) - 1

\* str.strip(), re's \s: the whitespace characters of the model's alphabet
IsSpace(c) == c \in {" ", "\t", "\n", "\r"}

Max(a, b) == IF a >= b THEN a ELSE b

Range(f) == {f[x] : x \in DOMAIN f}

RECURSIVE LStrip(_)
LStrip(s) ==
    IF s # <<>> /\ IsSpace(Head(s)) THEN LStrip(Tail(s)) ELSE s

RECURSIVE RStrip(_)
RStrip(s) ==
    IF s # <<>> /\ IsSpace(s[Len(s)]) THEN RStrip(SubSeq(s, 1, Len(s) - 1)) ELSE s

\* str.strip()
Strip(s) == RStrip(LStrip(s))

\* str.split(sep) for a one-character separator: always at least one part
RECURSIVE SplitFrom(_, _, _)
SplitFrom(s, sep, cur) ==
    IF s = <<>> THEN <<cur>>
    ELSE IF Head(s) = sep THEN <<cur>> \o SplitFrom(Tail(s), sep, <<>>)
    ELSE SplitFrom(Tail(s), sep, Append(cur, Head(s)))

Split(s, sep) == SplitFrom(s, sep, <<>>)

\* "\n".join(lines)
RECURSIVE Join(_)
Join(lines) ==
    IF lines = <<>> THEN <<>>
    ELSE IF Len(lines) = 1 THEN lines[1]
    ELSE lines[1] \o <<"\n">> \o Join(Tail(lines))

\* str(n) for n >= 0
RECURSIVE IntToStr(_)
IntToStr(n) ==
    IF n < 10 THEN <<Digits[n + 1]>>
    ELSE IntToStr(n \div 10) \o <<Digits[(n % 10) + 1]>>

\* f"{n:02d}" for n >= 0
Pad02(n) == IF n < 10 THEN <<"0">> \o IntToStr(n) ELSE IntToStr(n)

\* int(s): the value, or None for the ValueError int() raises
RECURSIVE IntAcc(_, _)
IntAcc(s, acc) ==
    IF s = <<>> THEN Some(acc)
    ELSE IF ~IsDigit(Head(s)) THEN None
    ELSE IntAcc(Tail(s), acc * 10 + DigitVal(Head(s)))

ParseInt(s) ==
    LET t == Strip(s) IN IF t = <<>> THEN None ELSE IntAcc(t, 0)

(***************************************************************************)
(* format_duration, parse_timestamp, parse_timestamps.                     *)
(***************************************************************************)
Unknown == <<"U", "n", "k", "n", "o", "w", "n">>

format_duration(seconds) ==
    IF seconds = 0 THEN Unknown
    ELSE IntToStr(seconds \div 60) \o <<":">> \o Pad02(seconds % 60)

\* Accepts any part when the conversion raises: a mutant of parse_timestamp
parse_timestamp_first_part(timestamp_str) ==
    LET parts == Split(Strip(timestamp_str), ":") IN
    IF Len(parts) = 2 /\ ParseInt(parts[1]) # None
    THEN Some(ParseInt(parts[1]).val * 60)
    ELSE None

parse_timestamp(timestamp_str) ==
    LET parts == Split(Strip(timestamp_str), ":") IN
    IF Len(parts) = 2
    THEN LET mins == ParseInt(parts[1])
             secs == ParseInt(parts[2])
         IN  IF mins = None \/ secs = None THEN None
             ELSE Some(mins.val * 60 + secs.val)
    ELSE None

\* the index after the longest run of digits of s that starts at i
RECURSIVE DigitRun(_, _)
DigitRun(s, i) ==
    IF i <= Len(s) /\ IsDigit(s[i]) THEN DigitRun(s, i + 1) ELSE i

RECURSIVE SpaceRun(_, _)
SpaceRun(s, i) ==
    IF i <= Len(s) /\ IsSpace(s[i]) THEN SpaceRun(s, i + 1) ELSE i

\* the character at i, or "" past the end
CharAt(s, i) == IF i >= 1 /\ i <= Len(s) THEN s[i] ELSE ""

NoMatch == [matched |-> FALSE]

\* re.match(r'(\d+:\d+)\s*-\s*(\d+:\d+)', line): anchored at the start of the
\* line only; each class of the pattern is disjoint from what follows it, so
\* the greedy scan is the only way to match.
MatchRange(line) ==
    LET a1 == DigitRun(line, 1)
        a2 == DigitRun(line, a1 + 1)
        d  == SpaceRun(line, a2)
        b0 == SpaceRun(line, d + 1)
        b1 == DigitRun(line, b0)
        b2 == DigitRun(line, b1 + 1)
    IN  IF /\ a1 > 1 /\ CharAt(line, a1) = ":" /\ a2 > a1 + 1
           /\ CharAt(line, d) = "-"
           /\ b1 > b0 /\ CharAt(line, b1) = ":" /\ b2 > b1 + 1
        THEN [matched |-> TRUE,
              start_str |-> SubSeq(line, 1, a2 - 1),
              end_str |-> SubSeq(line, b0, b2 - 1)]
        ELSE NoMatch

\* one pass of the loop body of parse_timestamps: the clips one line adds
\* (mutant: keeps a range whose start equals its end)
LineClipsNotAfter(raw_line) ==
    LET line == Strip(raw_line)
        m == MatchRange(line)
    IN  IF line = <<>> \/ ~m.matched THEN <<>>
        ELSE LET start_sec == parse_timestamp(m.start_str)
                 end_sec == parse_timestamp(m.end_str)
             IN  IF start_sec # None /\ end_sec # None /\ start_sec.val <= end_sec.val
                 THEN << [start |-> m.start_str, end |-> m.end_str,
                          start_sec |-> start_sec.val, end_sec |-> end_sec.val] >>
                 ELSE <<>>

LineClips(raw_line) ==
    LET line == Strip(raw_line)
        m == MatchRange(line)
    IN  IF line = <<>> \/ ~m.matched THEN <<>>
        ELSE LET start_sec == parse_timestamp(m.start_str)
                 end_sec == parse_timestamp(m.end_str)
             IN  IF start_sec # None /\ end_sec # None /\ start_sec.val < end_sec.val
                 THEN << [start |-> m.start_str, end |-> m.end_str,
                          start_sec |-> start_sec.val, end_sec |-> end_sec.val] >>
                 ELSE <<>>

\* the for loop of parse_timestamps over the lines, clips appended in order
\* (mutant: the loop ends at the first line that adds no clip)
RECURSIVE ParseLinesUntilSkip(_)
ParseLinesUntilSkip(lines) ==
    IF lines = <<>> \/ LineClips(Head(lines)) = <<>> THEN <<>>
    ELSE LineClips(Head(lines)) \o ParseLinesUntilSkip(Tail(lines))

RECURSIVE ParseLines(_)
ParseLines(lines) ==
    IF lines = <<>> THEN <<>>
    ELSE LineClips(Head(lines)) \o ParseLines(Tail(lines))

(***************************************************************************)
(* The texts the handlers are given, written as the user types them.       *)
(***************************************************************************)
\* "M:SS": minutes = seconds div 60, two-digit seconds = seconds mod 60
RenderMSS(sec) == IntToStr(sec \div 60) \o <<":">> \o Pad02(sec % 60)

RenderPair(p) == RenderMSS(p[1]) \o <<"-">> \o RenderMSS(p[2])

RenderPairs(pairs) == [i \in 1..Len(pairs) |-> RenderPair(pairs[i])]

Abc == <<"a", "b", "c">>

TextOne == RenderPair(<<3, 5>>)

TextTwo == Join(<< RenderPair(<<7, 9>>), RenderPair(<<130, 145>>) >>)

TextThree == Join(<< RenderPair(<<3, 5>>), RenderPair(<<7, 9>>), RenderPair(<<130, 145>>) >>)

\* "1:00-1:10\n2:00-1:50\nabc\n3:00-3:30"
TextMixed ==
    Join(<< RenderPair(<<60, 70>>), RenderPair(<<120, 110>>), Abc, RenderPair(<<180, 210>>) >>)

\* "3:15-2:30\n5:00-5:00"
TextBadRanges == Join(<< RenderPair(<<195, 150>>), RenderPair(<<300, 300>>) >>)

TextBlank == <<" ", "\n">>

\* "2:10-2:25\n0:07-0:09": the preview is of the first clip
TextPreview == Join(<< RenderPair(<<130, 145>>), RenderPair(<<7, 9>>) >>)

HandlerTexts ==
    {TextOne, TextTwo, TextThree, TextMixed, TextBadRanges, TextBlank, TextPreview,
     Abc, <<>>}

\* what parse_timestamps returns for each of the handlers' texts, computed once
ParsedHandlerTexts == [text \in HandlerTexts |-> ParseLines(Split(Strip(text), "\n"))]

parse_timestamps(text) ==
    IF text \in HandlerTexts THEN ParsedHandlerTexts[text]
    ELSE ParseLines(Split(Strip(text), "\n"))

(***************************************************************************)
(* The parser on its own: the input text is either free-form (lines drawn  *)
(* from LineSamples) or rendered from a list of (start, end) pairs.        *)
(***************************************************************************)
LineSamples ==
    { <<"1", ":", "0", "0", "-", "1", ":", "1", "0">>,
      <<"3", ":", "1", "5", "-", "2", ":", "3", "0">>,
      <<"5", ":", "0", "0", "-", "5", ":", "0", "0">>,
      <<"2", ":", "3", "0">>,
      <<"a", "b", "c">>,
      <<"a", ":", "b", "c", "-", "d", ":", "e", "f">>,
      <<>>,
      <<" ", "\t">>,
      <<" ", "0", ":", "0", "7", " ", " ", "-", "\t", "0", ":", "0", "9", "x", "\r">>,
      <<"2", ":", "3", "-", "2", ":", "9">>,
      <<"x", "1", ":", "0", "0", "-", "1", ":", "1", "0">>,
      <<"1", ":", "0", "0", "-", "-", "1", ":", "1", "0">> }

SecSamples == {0, 5, 59, 60, 61, 130, 145, 600}

PairSamples == {p \in SecSamples \X SecSamples : p[1] < p[2]}

\* Seq(S) up to length n
RECURSIVE SeqsUpTo(_, _)
SeqsUpTo(S, n) ==
    IF n = 0 THEN {<<>>}
    ELSE LET shorter == SeqsUpTo(S, n - 1) IN
         shorter \cup {Append(q, x) : q \in {r \in shorter : Len(r) = n - 1}, x \in S}

(***************************************************************************)
(* Files.  fs is the set of files that exist, at most one for a path; a    *)
(* file's content says what wrote it.  The tempfile directories are empty  *)
(* when the program starts and no code of app.py deletes a file.           *)
(***************************************************************************)
Mp4 == <<".", "m", "p", "4">>

\* os.path.join(OUTPUT_DIR, f"{output_name}.mp4")
OutPath(output_name) == [dir |-> "downloads", name |-> output_name \o Mp4]

\* os.path.join(PREVIEW_DIR, f"{preview_name}_preview.mp4")
PreviewPath(preview_name) ==
    [dir |-> "previews",
     name |-> preview_name \o <<"_", "p", "r", "e", "v", "i", "e", "w">> \o Mp4]

\* os.path.exists(path)
Exists(files, path) == \E f \in files : f.path = path

FileAt(files, path) == CHOOSE f \in files : f.path = path

RemoveFile(files, path) == {f \in files : f.path # path}

WriteFile(files, path, content) ==
    RemoveFile(files, path) \cup {[path |-> path, content |-> content]}

(***************************************************************************)
(* The external tools.  yt_dlp's extract_info either returns the direct    *)
(* URL of the video or raises.  ffmpeg (run with -y and a timeout) ends in *)
(* one of FfmpegOutcomes:                                                  *)
(*   ok            exit status 0, the output file written                  *)
(*   nofile        exit status 0, no file at the output path afterwards    *)
(*   fail          non-zero exit status before the output was opened       *)
(*   fail_partial  non-zero exit status, a partial output file left        *)
(*   timeout       subprocess.TimeoutExpired, a partial output file left   *)
(***************************************************************************)
ResolveOutcomes == {"ok", "fail"}

FfmpegOutcomes == {"ok", "nofile", "fail", "fail_partial", "timeout"}

\* what one call of download_clip meets: its resolution, the resolution of
\* the precise fallback, and the ffmpeg run
EngineOutcomes == [r1 : ResolveOutcomes, r2 : ResolveOutcomes, f : FfmpegOutcomes]

DirectUrl(video_url) == [direct |-> video_url]

\* subprocess.run(..., timeout=...): the seconds each ffmpeg run is given
PreviewTimeout == 120

FastTimeout == 180

PreciseTimeout == 300

TrimTimeout == 180

\* ydl.extract_info(video_url, download=False): the call is given no timeout
ResolveCall(video_url) == [tool |-> "yt_dlp", url |-> video_url, timeout |-> None]

\* the files after ffmpeg ran cmd and ended as outcome
FfmpegEffect(files, cmd, outcome) ==
    CASE outcome = "ok" ->
            WriteFile(files, cmd.out,
                      [kind |-> cmd.codec, input |-> cmd.input, ss |-> cmd.ss,
                       t |-> cmd.t, vf |-> cmd.vf])
      [] outcome = "nofile" -> RemoveFile(files, cmd.out)
      [] outcome = "fail" -> files
      [] OTHER -> WriteFile(files, cmd.out, [kind |-> "partial"])

\* result.returncode != 0 ... os.path.exists(final_path) ... the except clauses:
\* what a download function returns after its ffmpeg run
\* (mutant: the exit status is not looked at)
AfterFfmpegNoStatus(files, cmd, outcome, okmsg, calls) ==
    LET after == FfmpegEffect(files, cmd, outcome)
        run == Append(calls, cmd)
    IN  IF outcome = "timeout"
        THEN [file_path |-> None, msg |-> [kind |-> "timeout"], fs |-> after, calls |-> run]
        ELSE IF Exists(after, cmd.out)
        THEN [file_path |-> cmd.out, msg |-> [kind |-> okmsg], fs |-> after, calls |-> run]
        ELSE [file_path |-> None, msg |-> [kind |-> "error", why |-> "Output file not created"],
              fs |-> after, calls |-> run]

\* (mutant: a run that ends with a non-zero exit status is made once more)
AfterFfmpegRetry(files, cmd, outcome, okmsg, calls) ==
    LET after == FfmpegEffect(files, cmd, outcome)
        run == Append(calls, cmd)
    IN  IF outcome = "timeout"
        THEN [file_path |-> None, msg |-> [kind |-> "timeout"], fs |-> after, calls |-> run]
        ELSE IF outcome \in {"fail", "fail_partial"}
        THEN [file_path |-> None, msg |-> [kind |-> "error", why |-> "FFmpeg failed"],
              fs |-> after, calls |-> Append(run, cmd)]
        ELSE IF Exists(after, cmd.out)
        THEN [file_path |-> cmd.out, msg |-> [kind |-> okmsg], fs |-> after, calls |-> run]
        ELSE [file_path |-> None, msg |-> [kind |-> "error", why |-> "Output file not created"],
              fs |-> after, calls |-> run]

AfterFfmpeg(files, cmd, outcome, okmsg, calls) ==
    LET after == FfmpegEffect(files, cmd, outcome)
        run == Append(calls, cmd)
    IN  IF outcome = "timeout"
        THEN [file_path |-> None, msg |-> [kind |-> "timeout"], fs |-> after, calls |-> run]
        ELSE IF outcome \in {"fail", "fail_partial"}
        THEN [file_path |-> None, msg |-> [kind |-> "error", why |-> "FFmpeg failed"],
              fs |-> after, calls |-> run]
        ELSE IF Exists(after, cmd.out)
        THEN [file_path |-> cmd.out, msg |-> [kind |-> okmsg], fs |-> after, calls |-> run]
        ELSE [file_path |-> None, msg |-> [kind |-> "error", why |-> "Output file not created"],
              fs |-> after, calls |-> run]

FetchFailed(files, calls) ==
    [file_path |-> None, msg |-> [kind |-> "error", why |-> "extract_info"],
     fs |-> files, calls |-> calls]

(***************************************************************************)
(* download_clip_precise, download_clip_fast, download_clip.  calls is the *)
(* list of tool invocations made so far by the enclosing download_clip.    *)
(***************************************************************************)
\* the ffmpeg command of download_clip_precise
PreciseCmd(video_url, start_time, end_time, output_name, crop_vertical) ==
    [tool |-> "ffmpeg", codec |-> "libx264", vf |-> crop_vertical,
     ss |-> start_time, t |-> end_time - start_time,
     input |-> DirectUrl(video_url), out |-> OutPath(output_name),
     timeout |-> Some(PreciseTimeout)]

\* the ffmpeg command of download_clip_fast
CopyCmd(video_url, start_time, end_time, output_name) ==
    [tool |-> "ffmpeg", codec |-> "copy", vf |-> FALSE,
     ss |-> start_time, t |-> end_time - start_time,
     input |-> DirectUrl(video_url), out |-> OutPath(output_name),
     timeout |-> Some(FastTimeout)]

download_clip_precise(files, video_url, start_time, end_time, output_name, crop_vertical, resolved, ffmpeg, calls) ==
    LET asked == Append(calls, ResolveCall(video_url)) IN
    IF resolved = "fail" THEN FetchFailed(files, asked)
    ELSE AfterFfmpeg(files,
                     PreciseCmd(video_url, start_time, end_time, output_name, crop_vertical),
                     ffmpeg, "Downloaded (Precise)", asked)

\* (mutant: the crop check is missing and the copy command runs)
download_clip_fast_no_fallback(files, video_url, start_time, end_time, output_name, crop_vertical, outcome) ==
    LET asked == <<ResolveCall(video_url)>> IN
    IF outcome.r1 = "fail" THEN FetchFailed(files, asked)
    ELSE AfterFfmpeg(files, CopyCmd(video_url, start_time, end_time, output_name),
                     outcome.f, "Downloaded (Fast)", asked)

download_clip_fast(files, video_url, start_time, end_time, output_name, crop_vertical, outcome) ==
    LET asked == <<ResolveCall(video_url)>> IN
    IF outcome.r1 = "fail" THEN FetchFailed(files, asked)
    ELSE IF crop_vertical
    THEN download_clip_precise(files, video_url, start_time, end_time, output_name,
                               crop_vertical, outcome.r2, outcome.f, asked)
    ELSE AfterFfmpeg(files, CopyCmd(video_url, start_time, end_time, output_name),
                     outcome.f, "Downloaded (Fast)", asked)

download_clip(files, video_url, start_time, end_time, output_name, crop_vertical, precise_mode, outcome) ==
    IF precise_mode
    THEN download_clip_precise(files, video_url, start_time, end_time, output_name,
                               crop_vertical, outcome.r1, outcome.f, <<>>)
    ELSE download_clip_fast(files, video_url, start_time, end_time, output_name,
                            crop_vertical, outcome)

\* download_clip called on its own, as a caller other than process_download
\* may call it: dc.pc is "off" when no such call is made, "idle" before the
\* call and "done" after it
DcOff == [pc |-> "off"]

DcIdle == [pc |-> "idle"]

call_download_clip(video_url, start_time, end_time, output_name, crop_vertical, precise_mode, outcome) ==
    /\ dc.pc = "idle"
    /\ LET r == download_clip(fs, video_url, start_time, end_time, output_name,
                              crop_vertical, precise_mode, outcome)
       IN  /\ fs' = r.fs
           /\ dc' = [pc |-> "done", start_time |-> start_time, end_time |-> end_time,
                     crop_vertical |-> crop_vertical, precise_mode |-> precise_mode,
                     file_path |-> r.file_path, msg |-> r.msg, calls |-> r.calls]
    /\ UNCHANGED <<globals, ui, pd, dp, pt_vars>>

(***************************************************************************)
(* process_download.  The handler blocks in download_clip once per clip;   *)
(* pd.pc is "idle" before the first call, "loop" while clip pd.i is the    *)
(* next to extract, and "done" once the handler has returned               *)
(* (status_lines, downloaded_files).  pd.attempts and pd.calls record, per *)
(* clip, what download_clip was given, what it returned and the tool       *)
(* invocations it made; pd.video_url is the url of the video that was       *)
(* selected when the handler was called.                                   *)
(***************************************************************************)
ClipWord == <<"c", "l", "i", "p">>

\* if not clip_name_prefix or clip_name_prefix.strip() == "": "clip"
EffectivePrefix(clip_name_prefix) ==
    IF clip_name_prefix = <<>> \/ Strip(clip_name_prefix) = <<>> THEN ClipWord
    ELSE clip_name_prefix

\* (mutant: the index is left out of the name)
ClipFilenameNoIndex(clip_name_prefix, i) == clip_name_prefix

\* clip_filename = f"{clip_name_prefix}_{i}"
ClipFilename(clip_name_prefix, i) == clip_name_prefix \o <<"_">> \o IntToStr(i)

PdIdle ==
    [pc |-> "idle", timestamps_text |-> <<>>, prefix_given |-> <<>>, had_video |-> FALSE,
     video_url |-> None, clips |-> <<>>, i |-> 1,
     clip_name_prefix |-> <<>>, crop_vertical |-> FALSE, precise_mode |-> FALSE,
     status_lines |-> <<>>, downloaded_files |-> <<>>, attempts |-> <<>>, calls |-> <<>>]

\* (mutant: a text with a line that gives no clip is refused as a whole)
RefusalAnyBadLine(video, timestamps_text) ==
    IF video = None THEN "No video selected"
    ELSE IF timestamps_text = <<>> \/ Strip(timestamps_text) = <<>>
    THEN "Please enter timestamps"
    ELSE IF \E line \in Range(Split(Strip(timestamps_text), "\n")) : LineClips(line) = <<>>
    THEN "No valid timestamps"
    ELSE ""

\* the early returns of process_download: the message returned, or "" when
\* the batch goes ahead
Refusal(video, timestamps_text) ==
    IF video = None THEN "No video selected"
    ELSE IF timestamps_text = <<>> \/ Strip(timestamps_text) = <<>>
    THEN "Please enter timestamps"
    ELSE IF parse_timestamps(timestamps_text) = <<>> THEN "No valid timestamps"
    ELSE ""

\* (mutant: the tally counts the clips tried, not the files)
TallyLinesOfClips(n_files, n_clips) ==
    << [kind |-> "tally", succeeded |-> n_clips, total |-> n_clips], [kind |-> "tip"] >>

\* the lines process_download appends after its loop
TallyLines(n_files, n_clips) ==
    << [kind |-> "tally", succeeded |-> n_files, total |-> n_clips], [kind |-> "tip"] >>

\* (mutant: a clip that fails ends the batch)
LoopEndsOnFailure(i, n_clips, file_path) == i = n_clips \/ file_path = None

\* the for loop ends after the last clip, whatever download_clip returned
LoopEnds(i, n_clips, file_path) == i = n_clips

\* what the extraction of one clip met: the failed resolution, or how ffmpeg ended
Met(outcome, crop_vertical, precise_mode) ==
    IF outcome.r1 = "fail" THEN "fetch failed"
    ELSE IF ~precise_mode /\ crop_vertical /\ outcome.r2 = "fail" THEN "fetch failed"
    ELSE outcome.f

process_download_start(timestamps_text, clip_name_prefix, crop_vertical, precise_mode) ==
    /\ pd.pc # "loop"
    /\ LET why == Refusal(selected_video, timestamps_text)
           given == [PdIdle EXCEPT !.timestamps_text = timestamps_text,
                                   !.prefix_given = clip_name_prefix,
                                   !.had_video = (selected_video # None),
                                   !.video_url = IF selected_video = None THEN None
                                                 ELSE selected_video.url]
       IN  pd' = IF why # ""
                 THEN [given EXCEPT !.pc = "done",
                                    !.status_lines = << [kind |-> "error", why |-> why] >>]
                 ELSE LET clips == parse_timestamps(timestamps_text) IN
                      [given EXCEPT
                         !.pc = "loop", !.clips = clips,
                         !.clip_name_prefix = EffectivePrefix(clip_name_prefix),
                         !.crop_vertical = crop_vertical, !.precise_mode = precise_mode,
                         !.status_lines =
                             << [kind |-> "processing", total |-> Len(clips),
                                 precise_mode |-> precise_mode],
                                [kind |-> "video", title |-> selected_video.title] >>]
    /\ UNCHANGED <<globals, ui, fs, dp, harness>>

\* one pass of the for loop and, after the last clip, the lines that follow it
process_download_clip(outcome) ==
    /\ pd.pc = "loop"
    /\ pd.i <= Len(pd.clips)
    /\ LET i == pd.i
           clip == pd.clips[i]
           clip_filename == ClipFilename(pd.clip_name_prefix, i)
           r == download_clip(fs, selected_video.url, clip.start_sec, clip.end_sec,
                              clip_filename, pd.crop_vertical, pd.precise_mode, outcome)
           counted == r.file_path # None /\ Exists(r.fs, r.file_path)
           lines == pd.status_lines \o
                    << [kind |-> "clip", i |-> i, total |-> Len(pd.clips),
                        start |-> clip.start, end |-> clip.end],
                       [kind |-> "msg", i |-> i, msg |-> r.msg] >>
           files == IF counted THEN Append(pd.downloaded_files, r.file_path)
                    ELSE pd.downloaded_files
           last == LoopEnds(i, Len(pd.clips), r.file_path)
       IN  /\ fs' = r.fs
           /\ pd' = [pd EXCEPT
                       !.pc = IF last THEN "done" ELSE "loop",
                       !.i = i + 1,
                       !.status_lines =
                           IF last THEN lines \o TallyLines(Len(files), Len(pd.clips))
                           ELSE lines,
                       !.downloaded_files = files,
                       !.attempts = Append(@, [i |-> i, video_url |-> selected_video.url,
                                               start_time |-> clip.start_sec,
                                               end_time |-> clip.end_sec,
                                               output_name |-> clip_filename,
                                               met |-> Met(outcome, pd.crop_vertical,
                                                           pd.precise_mode),
                                               file_path |-> r.file_path,
                                               counted |-> counted]),
                       !.calls = Append(@, r.calls)]
    /\ UNCHANGED <<globals, ui, dp, harness>>

\* download_clip blocks in extract_info: a call that is given no timeout
\* need not return, and the handler then stays in its loop for good
process_download_blocks ==
    /\ pd.pc = "loop"
    /\ pd.i <= Len(pd.clips)
    /\ ResolveCall(selected_video.url).timeout = None
    /\ pd' = [pd EXCEPT !.pc = "blocked",
                        !.calls = Append(@, << ResolveCall(selected_video.url) >>)]
    /\ UNCHANGED <<globals, ui, fs, dp, harness>>

(***************************************************************************)
(* Search and selection.  A video record keeps the fields the handlers     *)
(* read: id, title, url.  The url the provider gave is EntryUrl; the       *)
(* canonical watch URL of an id is WatchUrl.                               *)
(***************************************************************************)
EntryUrl(x) == [watch |-> FALSE, v |-> x]

WatchUrl(video_id) == [watch |-> TRUE, v |-> video_id]

Video(video_id, title) == [id |-> video_id, title |-> title, url |-> EntryUrl(title)]

\* what search_youtube can return: None (found = FALSE), or one of these lists
SearchSamples ==
    { << Video("a", "A"), Video("b", "B") >>,
      << Video("", "C") >> }

\* (mutant: a successful search clears the selection)
perform_search_clears_selection(query_blank, found, videos) ==
    /\ search_results' =
          IF query_blank \/ ~found THEN search_results ELSE videos
    /\ selected_video' =
          IF query_blank \/ ~found THEN selected_video ELSE None
    /\ UNCHANGED <<current_preview_path, current_buffer_start,
                   current_buffer_end, current_clip_info, ui, fs, pd, dp, harness>>

\* perform_search: a blank query and a failed or empty search change nothing
perform_search(query_blank, found, videos) ==
    /\ search_results' =
          IF query_blank \/ ~found THEN search_results ELSE videos
    /\ UNCHANGED <<selected_video, current_preview_path, current_buffer_start,
                   current_buffer_end, current_clip_info, ui, fs, pd, dp, harness>>

\* (mutant: the url is rebuilt from the url the selection before wrote)
FullUrlOfUrl(video) ==
    IF video.url.watch THEN EntryUrl(video.url.v) ELSE WatchUrl(video.id)

\* full_url = f"https://www.youtube.com/watch?v={video_id}" if video_id else url
FullUrl(video) == IF video.id # "" THEN WatchUrl(video.id) ELSE video.url

\* select_video_handler: index is evt.index[0]; selected_video is the very
\* record of search_results, so setting its url sets it in the list too
select_video_handler(index) ==
    /\ IF 0 <= index /\ index < Len(search_results)
       THEN LET chosen == [search_results[index + 1] EXCEPT
                             !.url = FullUrl(search_results[index + 1])]
            IN  /\ selected_video' = chosen
                /\ search_results' = [search_results EXCEPT ![index + 1] = chosen]
                /\ page' = "video"
       ELSE /\ UNCHANGED <<selected_video, search_results>>
            /\ page' = "search"
    /\ UNCHANGED <<current_preview_path, current_buffer_start, current_buffer_end,
                   current_clip_info, preview_editor, trim_start_slider,
                   trim_end_slider, fs, pd, dp, harness>>

go_back_to_search ==
    /\ page' = "search"
    /\ UNCHANGED <<globals, preview_editor, trim_start_slider, trim_end_slider,
                   fs, pd, dp, harness>>

(***************************************************************************)
(* generate_preview, generate_preview_handler.                             *)
(***************************************************************************)
PreviewBuffer == 5

\* buffer_start = max(0, start_time - 5)
BufferStart(start_time, pad) == Max(0, start_time - pad)

\* buffer_end = end_time + 5
BufferEnd(end_time, pad) == end_time + pad

\* (mutant: the absolute time is used against the preview file)
RelativeAbsolute(time, buffer_start) == time

\* original_start_relative = first_clip['start_sec'] - buffer_start
Relative(time, buffer_start) == time - buffer_start

Clip1 == <<"c", "l", "i", "p", "_", "1">>

\* generate_preview: every exception, a timeout included, gives
\* (None, 0, 0, 0, message)
generate_preview(files, video_url, start_time, end_time, preview_name, outcome) ==
    LET preview_path == PreviewPath(preview_name)
        buffer_start == BufferStart(start_time, PreviewBuffer)
        buffer_end == BufferEnd(end_time, PreviewBuffer)
        buffer_duration == buffer_end - buffer_start
        cmd == [tool |-> "ffmpeg", codec |-> "copy", vf |-> FALSE,
                ss |-> buffer_start, t |-> buffer_duration,
                input |-> DirectUrl(video_url), out |-> preview_path,
                timeout |-> Some(PreviewTimeout)]
        failed == [preview_path |-> None, buffer_start |-> 0, buffer_end |-> 0,
                   buffer_duration |-> 0]
    IN  IF outcome.r1 = "fail"
        THEN failed @@ [fs |-> files]
        ELSE LET after == FfmpegEffect(files, cmd, outcome.f) IN
             IF outcome.f = "ok" /\ Exists(after, preview_path)
             THEN [preview_path |-> preview_path, buffer_start |-> buffer_start,
                   buffer_end |-> buffer_end, buffer_duration |-> buffer_duration,
                   fs |-> after]
             ELSE failed @@ [fs |-> after]

EmptyInfo == [empty |-> TRUE]

generate_preview_handler(timestamps_text, outcome) ==
    LET clips == parse_timestamps(timestamps_text) IN
    IF \/ selected_video = None
       \/ timestamps_text = <<>> \/ Strip(timestamps_text) = <<>>
       \/ clips = <<>>
    THEN /\ preview_editor' = FALSE
         /\ UNCHANGED <<globals, page, trim_start_slider, trim_end_slider, fs, pd, dp,
                        harness>>
    ELSE LET first_clip == clips[1]
             p == generate_preview(fs, selected_video.url, first_clip.start_sec,
                                   first_clip.end_sec, Clip1, outcome)
             original_start_relative == Relative(first_clip.start_sec, p.buffer_start)
             original_end_relative == Relative(first_clip.end_sec, p.buffer_start)
         IN  /\ fs' = p.fs
             /\ IF p.preview_path # None
                THEN /\ current_preview_path' = p.preview_path
                     /\ current_buffer_start' = p.buffer_start
                     /\ current_buffer_end' = p.buffer_end
                     /\ current_clip_info' =
                          [original_start |-> first_clip.start,
                           original_end |-> first_clip.end,
                           start_relative |-> original_start_relative,
                           end_relative |-> original_end_relative,
                           preview_duration |-> p.buffer_duration]
                     /\ preview_editor' = TRUE
                     /\ trim_start_slider' = original_start_relative
                     /\ trim_end_slider' = original_end_relative
                ELSE /\ preview_editor' = FALSE
                     /\ UNCHANGED <<current_preview_path, current_buffer_start,
                                    current_buffer_end, current_clip_info,
                                    trim_start_slider, trim_end_slider>>
             /\ UNCHANGED <<search_results, selected_video, page, pd, dp, harness>>

\* the user moves the sliders of the visible editor (update_clip_info only
\* redraws the selection text); a slider stays within 0 .. preview_duration
MaxAdjust == 1

Near(v, d) == v - d <= MaxAdjust /\ d - v <= MaxAdjust

move_sliders(new_start, new_end) ==
    /\ preview_editor
    /\ current_clip_info # EmptyInfo
    /\ new_start \in 0..current_clip_info.preview_duration
    /\ new_end \in 0..current_clip_info.preview_duration
    /\ Near(new_start, current_clip_info.start_relative)
    /\ Near(new_end, current_clip_info.end_relative)
    /\ trim_start_slider' = new_start
    /\ trim_end_slider' = new_end
    /\ UNCHANGED <<globals, page, preview_editor, fs, pd, dp, harness>>

(***************************************************************************)
(* trim_preview_video, download_from_preview.  dp records the last call:   *)
(* what it returned and the ffmpeg invocations it made.                    *)
(***************************************************************************)
TrimCmd(preview_path, trim_start_relative, trim_end_relative, output_name, crop_vertical) ==
    [tool |-> "ffmpeg", codec |-> "libx264", vf |-> crop_vertical,
     ss |-> trim_start_relative, t |-> trim_end_relative - trim_start_relative,
     input |-> preview_path, out |-> OutPath(output_name),
     timeout |-> Some(TrimTimeout)]

\* (mutant: the preview file is removed once the trim has ended)
trim_preview_video_cleanup(files, preview_path, trim_start_relative, trim_end_relative, output_name, crop_vertical, ffmpeg) ==
    LET cmd == TrimCmd(preview_path, trim_start_relative, trim_end_relative,
                       output_name, crop_vertical)
        after == RemoveFile(FfmpegEffect(files, cmd, ffmpeg), preview_path)
    IN  IF ffmpeg \in {"ok", "nofile"} /\ Exists(after, cmd.out)
        THEN [file_path |-> cmd.out, msg |-> [kind |-> "Trimmed"], fs |-> after,
              calls |-> <<cmd>>]
        ELSE [file_path |-> None, msg |-> [kind |-> "error", why |-> ffmpeg], fs |-> after,
              calls |-> <<cmd>>]

\* trim_preview_video: every exception, a timeout included, gives (None, "Error: ...")
trim_preview_video(files, preview_path, trim_start_relative, trim_end_relative, output_name, crop_vertical, ffmpeg) ==
    LET cmd == TrimCmd(preview_path, trim_start_relative, trim_end_relative,
                       output_name, crop_vertical)
        after == FfmpegEffect(files, cmd, ffmpeg)
    IN  IF ffmpeg \in {"ok", "nofile"} /\ Exists(after, cmd.out)
        THEN [file_path |-> cmd.out, msg |-> [kind |-> "Trimmed"], fs |-> after,
              calls |-> <<cmd>>]
        ELSE [file_path |-> None, msg |-> [kind |-> "error", why |-> ffmpeg], fs |-> after,
              calls |-> <<cmd>>]

DpIdle == [pc |-> "idle", status |-> "", files |-> <<>>, calls |-> <<>>]

DpRefused(why) == [pc |-> "done", status |-> why, files |-> <<>>, calls |-> <<>>]

\* (mutant: the sliders are not compared before the trim)
download_from_preview_unchecked(clip_name, crop_vertical, ffmpeg) ==
    /\ IF current_preview_path = None
       THEN dp' = DpRefused("No preview available") /\ fs' = fs
       ELSE IF ~Exists(fs, current_preview_path)
       THEN dp' = DpRefused("Preview file not found") /\ fs' = fs
       ELSE LET r == trim_preview_video(
                        fs, current_preview_path, trim_start_slider, trim_end_slider,
                        IF Strip(clip_name) # <<>> THEN clip_name ELSE Clip1,
                        crop_vertical, ffmpeg)
            IN  /\ fs' = r.fs
                /\ dp' = IF r.file_path # None /\ Exists(r.fs, r.file_path)
                         THEN [pc |-> "done", status |-> "Downloaded from preview",
                               files |-> <<r.file_path>>, calls |-> r.calls]
                         ELSE [pc |-> "done", status |-> "Download failed",
                               files |-> <<>>, calls |-> r.calls]
    /\ UNCHANGED <<globals, ui, pd, harness>>

download_from_preview(clip_name, crop_vertical, ffmpeg) ==
    /\ IF current_preview_path = None
       THEN dp' = DpRefused("No preview available") /\ fs' = fs
       ELSE IF ~Exists(fs, current_preview_path)
       THEN dp' = DpRefused("Preview file not found") /\ fs' = fs
       ELSE IF trim_start_slider >= trim_end_slider
       THEN dp' = DpRefused("Start time must be before end time") /\ fs' = fs
       ELSE LET r == trim_preview_video(
                        fs, current_preview_path, trim_start_slider, trim_end_slider,
                        IF Strip(clip_name) # <<>> THEN clip_name ELSE Clip1,
                        crop_vertical, ffmpeg)
            IN  /\ fs' = r.fs
                /\ dp' = IF r.file_path # None /\ Exists(r.fs, r.file_path)
                         THEN [pc |-> "done", status |-> "Downloaded from preview",
                               files |-> <<r.file_path>>, calls |-> r.calls]
                         ELSE [pc |-> "done", status |-> "Download failed",
                               files |-> <<>>, calls |-> r.calls]
    /\ UNCHANGED <<globals, ui, pd, harness>>

(***************************************************************************)
(* The inputs of the handlers.                                             *)
(***************************************************************************)
SessionTexts == {TextOne, TextTwo, Abc, <<>>}

PreviewTexts == {TextOne, TextPreview, TextBadRanges, <<>>}

BatchTexts == {TextThree, TextMixed, TextBadRanges, Abc, TextBlank, <<>>}

SessionPrefixes == {<<>>, <<"x">>}

BatchPrefixes == {<<>>, <<" ">>, <<"x">>}

SelectIndexes == -1..2

(***************************************************************************)
(* The program: the state after the module is loaded, and the handlers the *)
(* interface wires to its events.  The server takes an event whatever      *)
(* column is visible, and takes the events of the other handlers while     *)
(* process_download waits for a clip.                                      *)
(***************************************************************************)
PtOff ==
    /\ pt_lines = <<>>
    /\ pt_pairs = <<>>
    /\ pt_text = <<>>
    /\ pt_clips = <<>>
    /\ pt_pc = "off"

Init ==
    /\ search_results = <<>>
    /\ selected_video = None
    /\ current_preview_path = None
    /\ current_buffer_start = 0
    /\ current_buffer_end = 0
    /\ current_clip_info = EmptyInfo
    /\ page = "search"
    /\ preview_editor = FALSE
    /\ trim_start_slider = 5
    /\ trim_end_slider = 15
    /\ fs = {}
    /\ pd = PdIdle
    /\ dp = DpIdle
    /\ dc = DcOff
    /\ PtOff

Search ==
    \E query_blank \in BOOLEAN, found \in BOOLEAN, videos \in SearchSamples :
        perform_search(query_blank, found, videos)

Select == \E index \in SelectIndexes : select_video_handler(index)

Back == go_back_to_search

\* generate_preview resolves once
PreviewOutcomes == {o \in EngineOutcomes : o.r2 = "ok"}

Preview ==
    \E text \in SessionTexts, outcome \in PreviewOutcomes :
        generate_preview_handler(text, outcome)

MoveSliders ==
    \E by_start \in -MaxAdjust..MaxAdjust, by_end \in -MaxAdjust..MaxAdjust :
        /\ current_clip_info # EmptyInfo
        /\ move_sliders(current_clip_info.start_relative + by_start,
                        current_clip_info.end_relative + by_end)

DownloadPreview ==
    \E clip_name \in SessionPrefixes, crop_vertical \in BOOLEAN, ffmpeg \in FfmpegOutcomes :
        download_from_preview(clip_name, crop_vertical, ffmpeg)

DownloadStart ==
    \E text \in SessionTexts, prefix \in SessionPrefixes,
       crop_vertical \in BOOLEAN, precise_mode \in BOOLEAN :
        process_download_start(text, prefix, crop_vertical, precise_mode)

DownloadClip == \E outcome \in EngineOutcomes : process_download_clip(outcome)

Next ==
    \/ Search
    \/ Select
    \/ Back
    \/ Preview
    \/ MoveSliders
    \/ DownloadPreview
    \/ DownloadStart
    \/ DownloadClip

Spec == Init /\ [][Next]_vars

(***************************************************************************)
(* process_download on its own: one batch, started in a state the session  *)
(* can be in when the user presses the button.  Either no video was ever   *)
(* selected, or the first result of a search is selected; the download     *)
(* directory is empty, or holds the files an earlier batch left under the  *)
(* same names.                                                             *)
(***************************************************************************)
SelectedA == [Video("a", "A") EXCEPT !.url = WatchUrl("a")]

StaleNames ==
    {ClipFilename(prefix, i) : prefix \in {ClipWord, <<"x">>}, i \in 1..MaxStale}

StaleFiles ==
    {[path |-> OutPath(n), content |-> [kind |-> "earlier batch"]] : n \in StaleNames}

InitBatch ==
    /\ \/ search_results = <<>> /\ selected_video = None /\ page = "search"
       \/ /\ search_results = << SelectedA, Video("b", "B") >>
          /\ selected_video = SelectedA
          /\ page = "video"
    /\ fs \in {{}, StaleFiles}
    /\ current_preview_path = None
    /\ current_buffer_start = 0
    /\ current_buffer_end = 0
    /\ current_clip_info = EmptyInfo
    /\ preview_editor = FALSE
    /\ trim_start_slider = 5
    /\ trim_end_slider = 15
    /\ pd = PdIdle
    /\ dp = DpIdle
    /\ dc = DcOff
    /\ PtOff

BatchStart ==
    /\ pd.pc = "idle"
    /\ \E text \in BatchTexts, prefix \in BatchPrefixes,
          crop_vertical \in BOOLEAN, precise_mode \in BOOLEAN :
           process_download_start(text, prefix, crop_vertical, precise_mode)

NextBatch ==
    \/ BatchStart
    \/ DownloadClip

SpecBatch == InitBatch /\ [][NextBatch]_vars

(***************************************************************************)
(* The batch with the calls that need not return.                          *)
(***************************************************************************)
DownloadBlocks == process_download_blocks

NextBlocking ==
    \/ BatchStart
    \/ DownloadClip
    \/ DownloadBlocks

SpecBlocking == InitBatch /\ [][NextBlocking]_vars

(***************************************************************************)
(* The preview editor on its own: the user asks for previews of the        *)
(* selected video and moves the sliders, until one download from the       *)
(* preview.                                                                *)
(***************************************************************************)
InitPreview ==
    /\ \/ search_results = <<>> /\ selected_video = None /\ page = "search"
       \/ /\ search_results = << SelectedA, Video("b", "B") >>
          /\ selected_video = SelectedA
          /\ page = "video"
    /\ fs = {}
    /\ current_preview_path = None
    /\ current_buffer_start = 0
    /\ current_buffer_end = 0
    /\ current_clip_info = EmptyInfo
    /\ preview_editor = FALSE
    /\ trim_start_slider = 5
    /\ trim_end_slider = 15
    /\ pd = PdIdle
    /\ dp = DpIdle
    /\ dc = DcOff
    /\ PtOff

PreviewOf ==
    /\ dp.pc = "idle"
    /\ \E text \in PreviewTexts, outcome \in PreviewOutcomes :
           generate_preview_handler(text, outcome)

SlidersOf == dp.pc = "idle" /\ MoveSliders

DownloadOnce == dp.pc = "idle" /\ DownloadPreview

NextPreview ==
    \/ PreviewOf
    \/ SlidersOf
    \/ DownloadOnce

SpecPreview == InitPreview /\ [][NextPreview]_vars

(***************************************************************************)
(* A batch and the handlers the server runs beside it.  The interface      *)
(* wires every listener to its own handler and launches with the default   *)
(* settings, under which the server runs the handlers of different         *)
(* listeners in separate worker threads: while process_download waits in   *)
(* download_clip for one clip, a search, a selection or a back navigation  *)
(* can run to its end.                                                     *)
(***************************************************************************)
\* the tools answer, fail to resolve, or ffmpeg runs out of time
SessionOutcomes ==
    { [r1 |-> "ok", r2 |-> "ok", f |-> "ok"],
      [r1 |-> "fail", r2 |-> "ok", f |-> "ok"],
      [r1 |-> "ok", r2 |-> "ok", f |-> "timeout"] }

BesideStart ==
    \E text \in {TextTwo, <<>>} :
        process_download_start(text, <<>>, FALSE, FALSE)

BesideClip == \E outcome \in SessionOutcomes : process_download_clip(outcome)

NextBeside ==
    \/ Search
    \/ Select
    \/ Back
    \/ BesideStart
    \/ BesideClip

SpecBeside == Init /\ [][NextBeside]_vars

(***************************************************************************)
(* A session: searches, selections and back navigation, previews of a      *)
(* one-clip text, downloads from the preview and one-clip batches.         *)
(***************************************************************************)
SessionPreview ==
    \E text \in {TextOne, <<>>}, outcome \in {o \in SessionOutcomes : o.r1 = "ok"} :
        generate_preview_handler(text, outcome)

SessionTrim ==
    \E ffmpeg \in {"ok", "fail"} : download_from_preview(<<>>, FALSE, ffmpeg)

SessionClip ==
    \E outcome \in {o \in SessionOutcomes : o.f = "ok"} : process_download_clip(outcome)

SessionStart ==
    \E text \in {TextOne, <<>>} :
        process_download_start(text, <<"x">>, FALSE, FALSE)

NextSession ==
    \/ Search
    \/ Select
    \/ Back
    \/ SessionPreview
    \/ SessionTrim
    \/ SessionStart
    \/ SessionClip

SpecSession == Init /\ [][NextSession]_vars

(***************************************************************************)
(* The range checks: either download_clip is called on its own with a      *)
(* range drawn from RangeSamples, or the preview editor is used as in      *)
(* SpecPreview.                                                            *)
(***************************************************************************)
RangeSamples == {<<3, 9>>, <<5, 5>>, <<9, 3>>}

InitRange ==
    /\ search_results = << SelectedA, Video("b", "B") >>
    /\ selected_video = SelectedA
    /\ page = "video"
    /\ fs = {}
    /\ current_preview_path = None
    /\ current_buffer_start = 0
    /\ current_buffer_end = 0
    /\ current_clip_info = EmptyInfo
    /\ preview_editor = FALSE
    /\ trim_start_slider = 5
    /\ trim_end_slider = 15
    /\ pd = PdIdle
    /\ dp = DpIdle
    /\ dc \in {DcOff, DcIdle}
    /\ PtOff

CallDownloadClip ==
    \E range \in RangeSamples, crop_vertical \in BOOLEAN, precise_mode \in BOOLEAN,
       outcome \in EngineOutcomes :
        call_download_clip(SelectedA.url, range[1], range[2], Clip1, crop_vertical,
                           precise_mode, outcome)

RangePreview == dc.pc = "off" /\ PreviewOf

RangeSliders == dc.pc = "off" /\ SlidersOf

RangeDownload == dc.pc = "off" /\ DownloadOnce

NextRange ==
    \/ CallDownloadClip
    \/ RangePreview
    \/ RangeSliders
    \/ RangeDownload

SpecRange == InitRange /\ [][NextRange]_vars

(***************************************************************************)
(* parse_timestamps on its own.                                            *)
(***************************************************************************)
InitParse ==
    /\ \/ /\ pt_lines \in SeqsUpTo(LineSamples, MaxLines)
          /\ pt_pairs = <<>>
       \/ /\ pt_pairs \in SeqsUpTo(PairSamples, MaxPairs) \ {<<>>}
          /\ pt_lines = RenderPairs(pt_pairs)
    /\ pt_text = Join(pt_lines)
    /\ pt_clips = <<>>
    /\ pt_pc = "input"
    /\ search_results = <<>>
    /\ selected_video = None
    /\ current_preview_path = None
    /\ current_buffer_start = 0
    /\ current_buffer_end = 0
    /\ current_clip_info = EmptyInfo
    /\ page = "search"
    /\ preview_editor = FALSE
    /\ trim_start_slider = 5
    /\ trim_end_slider = 15
    /\ fs = {}
    /\ pd = PdIdle
    /\ dp = DpIdle
    /\ dc = DcOff

CallParse ==
    /\ pt_pc = "input"
    /\ pt_clips' = parse_timestamps(pt_text)
    /\ pt_pc' = "done"
    /\ UNCHANGED <<pt_lines, pt_pairs, pt_text, dc, globals, ui, fs, pd, dp>>

NextParse == CallParse

SpecParse == InitParse /\ [][NextParse]_vars

(***************************************************************************)
(* Properties of process_download and download_clip, under SpecBatch.      *)
(***************************************************************************)
Attempted == 1..Len(pd.attempts)

\* the ffmpeg invocations download_clip made for clip j
FfmpegCalls(j) == SelectSeq(pd.calls[j], LAMBDA c : c.tool = "ffmpeg")

ResolveCalls(j) == SelectSeq(pd.calls[j], LAMBDA c : c.tool = "yt_dlp")

\* the message line of clip j in the report
MsgLine(j) == pd.status_lines[2 * j + 2]

IsSuccessMsg(msg) == msg.kind \in {"Downloaded (Fast)", "Downloaded (Precise)"}

InBatch == pd.pc \in {"loop", "done"} /\ pd.clips # <<>>

\* the tally line of a finished batch
Tally == pd.status_lines[Len(pd.status_lines) - 1]

\* C1: a batch is never cut short by a clip that failed.  Whatever each
\* extraction met, the clips are attempted once each in input order, each
\* attempt adds its header line and its message line to the report, a clip
\* counts as a success exactly when its own extraction succeeded, and the
\* handler returns only after the last clip.
C1_BatchIsolation ==
    InBatch =>
        /\ Len(pd.attempts) = pd.i - 1
        /\ Len(pd.calls) = Len(pd.attempts)
        /\ pd.pc = "done" => Len(pd.attempts) = Len(pd.clips)
        /\ pd.pc = "loop" => pd.i <= Len(pd.clips)
        /\ Len(pd.status_lines) = 2 + 2 * Len(pd.attempts) + (IF pd.pc = "done" THEN 2 ELSE 0)
        /\ \A j \in Attempted :
              /\ pd.attempts[j].i = j
              /\ pd.attempts[j].start_time = pd.clips[j].start_sec
              /\ pd.attempts[j].end_time = pd.clips[j].end_sec
              /\ pd.calls[j] # <<>>
              /\ pd.status_lines[2 * j + 1] =
                    [kind |-> "clip", i |-> j, total |-> Len(pd.clips),
                     start |-> pd.clips[j].start, end |-> pd.clips[j].end]
              /\ MsgLine(j).kind = "msg" /\ MsgLine(j).i = j
              /\ pd.attempts[j].counted <=> pd.attempts[j].met = "ok"
              /\ pd.attempts[j].counted <=> IsSuccessMsg(MsgLine(j).msg)

\* three clips, the second of which fails to resolve: clips 1 and 3 succeed, 2/3
C1_Witness ==
    /\ pd.pc = "done"
    /\ Len(pd.clips) = 3
    /\ pd.attempts[1].counted
    /\ pd.attempts[2].met = "fetch failed"
    /\ pd.attempts[3].counted
    /\ Len(pd.downloaded_files) = 2
    /\ Tally = [kind |-> "tally", succeeded |-> 2, total |-> 3]

\* C2 as stated: with the fast strategy and crop, download_clip runs exactly
\* one ffmpeg invocation, the re-encode with the scale/crop chain; with the
\* fast strategy and no crop the copy command is the one invoked.
C2_ExactlyOneReencode ==
    InBatch /\ ~pd.precise_mode =>
        \A j \in Attempted :
            IF pd.crop_vertical
            THEN /\ Len(FfmpegCalls(j)) = 1
                 /\ FfmpegCalls(j)[1].codec = "libx264"
                 /\ FfmpegCalls(j)[1].vf
            ELSE \A k \in 1..Len(FfmpegCalls(j)) : FfmpegCalls(j)[k].codec = "copy"

\* C2, amended: with the fast strategy and crop the copy command is never
\* invoked; download_clip runs at most one ffmpeg invocation, exactly one when
\* both resolutions of the direct URL succeed and none when one fails, and
\* that invocation is the re-encode with the scale/crop chain.  With the fast
\* strategy and no crop the only invocation, made when the resolution
\* succeeds, is the copy command, which carries no filter.
C2_CropForcesReencode ==
    InBatch /\ ~pd.precise_mode =>
        \A j \in Attempted :
            /\ Len(FfmpegCalls(j)) <= 1
            /\ Len(FfmpegCalls(j)) = 1 <=> pd.attempts[j].met # "fetch failed"
            /\ Len(ResolveCalls(j)) \in (IF pd.crop_vertical THEN {1, 2} ELSE {1})
            /\ \A k \in 1..Len(FfmpegCalls(j)) :
                  /\ FfmpegCalls(j)[k].codec = (IF pd.crop_vertical THEN "libx264" ELSE "copy")
                  /\ FfmpegCalls(j)[k].vf = pd.crop_vertical
                  /\ FfmpegCalls(j)[k].ss = pd.clips[j].start_sec
                  /\ FfmpegCalls(j)[k].t = pd.clips[j].end_sec - pd.clips[j].start_sec

\* fast strategy with crop, resolved twice, the re-encode run and successful
C2_Witness ==
    /\ InBatch /\ ~pd.precise_mode /\ pd.crop_vertical
    /\ Len(pd.attempts) >= 1
    /\ pd.attempts[1].counted
    /\ Len(ResolveCalls(1)) = 2
    /\ Len(FfmpegCalls(1)) = 1
    /\ FfmpegCalls(1)[1].codec = "libx264"

\* C7: process_download returns before any extraction exactly when no video
\* is selected or the text gives no valid clip; it then returns one error
\* line and no file and makes no tool invocation.  In every other case the
\* parsed clips are extracted, the first of them in any case.
C7_OnlyTwoStops ==
    pd.pc # "idle" =>
        LET stops == ~pd.had_video \/ parse_timestamps(pd.timestamps_text) = <<>> IN
        IF stops
        THEN /\ pd.pc = "done"
             /\ Len(pd.status_lines) = 1
             /\ pd.status_lines[1].kind = "error"
             /\ ~pd.had_video => pd.status_lines[1].why = "No video selected"
             /\ pd.downloaded_files = <<>>
             /\ pd.attempts = <<>>
             /\ pd.calls = <<>>
             /\ fs \in {{}, StaleFiles}
        ELSE /\ pd.clips = parse_timestamps(pd.timestamps_text)
             /\ pd.pc = "loop" => pd.i <= Len(pd.clips)
             /\ pd.pc = "done" => Len(pd.attempts) >= 1 /\ ResolveCalls(1) # <<>>

\* valid timestamps, but no video selected
C7_Witness ==
    /\ pd.pc = "done"
    /\ ~pd.had_video
    /\ Len(parse_timestamps(pd.timestamps_text)) = 3
    /\ pd.status_lines = << [kind |-> "error", why |-> "No video selected"] >>

\* the attempts of the batch that returned a path to a file that exists
Succeeded ==
    SelectSeq(pd.attempts, LAMBDA a : a.file_path # None /\ Exists(fs, a.file_path))

\* C8: the tally of a finished batch is succeeded/total, total the number of
\* clips the parser returned and succeeded the number of clips whose
\* extraction returned a path to an existing file; the files returned are
\* those paths in clip order; 0 <= succeeded <= total.
C8_Tally ==
    pd.pc = "done" /\ pd.clips # <<>> =>
        /\ Tally = [kind |-> "tally", succeeded |-> Len(Succeeded),
                    total |-> Len(parse_timestamps(pd.timestamps_text))]
        /\ pd.downloaded_files = [k \in 1..Len(Succeeded) |-> Succeeded[k].file_path]
        /\ 0 <= Tally.succeeded /\ Tally.succeeded <= Tally.total
        /\ pd.status_lines[Len(pd.status_lines)].kind = "tip"

\* two clips kept of four lines, the first extracted, the second timed out: 1/2
C8_Witness ==
    /\ pd.pc = "done"
    /\ pd.timestamps_text = TextMixed
    /\ Len(pd.attempts) = 2
    /\ pd.attempts[2].met = "timeout"
    /\ Tally = [kind |-> "tally", succeeded |-> 1, total |-> 2]
    /\ Len(pd.downloaded_files) = 1

IsBlank(s) == \A k \in 1..Len(s) : s[k] \in {" ", "\t", "\n", "\r"}

\* the name the claim gives clip j: the prefix, "clip" for a blank one, "_", j
NameOfClip(j) ==
    (IF IsBlank(pd.prefix_given) THEN <<"c", "l", "i", "p">> ELSE pd.prefix_given)
        \o <<"_", Digits[j + 1]>>

\* C9: the j-th clip the parser kept is extracted to {prefix}_{j}, the prefix
\* being "clip" when the one given is empty or blank; the names of a batch are
\* pairwise distinct, every ffmpeg invocation of clip j writes to the path of
\* that name, and the file of a clip that succeeded stays what that clip's
\* extraction wrote while the later clips are extracted, whatever they meet.
C9_DistinctNames ==
    InBatch =>
        /\ \A j \in Attempted :
              /\ pd.attempts[j].output_name = NameOfClip(j)
              /\ \A k \in 1..Len(FfmpegCalls(j)) :
                    FfmpegCalls(j)[k].out = OutPath(NameOfClip(j))
              /\ pd.attempts[j].counted =>
                    /\ Exists(fs, OutPath(NameOfClip(j)))
                    /\ FileAt(fs, OutPath(NameOfClip(j))).content =
                          [kind |-> (IF pd.precise_mode \/ pd.crop_vertical
                                     THEN "libx264" ELSE "copy"),
                           input |-> DirectUrl(pd.attempts[j].video_url),
                           ss |-> pd.clips[j].start_sec,
                           t |-> pd.clips[j].end_sec - pd.clips[j].start_sec,
                           vf |-> pd.crop_vertical]
        /\ \A j, k \in Attempted : j # k => pd.attempts[j].output_name # pd.attempts[k].output_name

\* prefix "x", the clip of line 4 is x_2; it leaves a partial file, x_1 stays
C9_Witness ==
    /\ pd.pc = "done"
    /\ pd.timestamps_text = TextMixed
    /\ pd.prefix_given = <<"x">>
    /\ Len(pd.attempts) = 2
    /\ pd.attempts[1].counted
    /\ pd.attempts[2].met = "fail_partial"
    /\ pd.attempts[2].start_time = 180
    /\ pd.attempts[2].output_name = <<"x", "_", "2">>

\* C10: an extraction returns a path only if ffmpeg exited with status zero
\* and the output file exists afterwards; after a non-zero exit status, a
\* timeout or a missing output file it returns no path but an error message,
\* also when a file of that name was there before, and the clip is not counted.
C10_SuccessNeedsExitZero ==
    InBatch =>
        \A j \in Attempted :
            /\ pd.attempts[j].file_path # None =>
                  /\ pd.attempts[j].met = "ok"
                  /\ pd.attempts[j].file_path = OutPath(pd.attempts[j].output_name)
                  /\ Exists(fs, pd.attempts[j].file_path)
            /\ pd.attempts[j].met \in {"fail", "fail_partial", "nofile", "timeout"} =>
                  /\ pd.attempts[j].file_path = None
                  /\ ~pd.attempts[j].counted
                  /\ MsgLine(j).msg.kind \in {"error", "timeout"}
                  /\ pd.attempts[j].file_path \notin Range(pd.downloaded_files)

\* ffmpeg exits non-zero and the file of an earlier batch is still there
C10_Witness ==
    /\ InBatch
    /\ Len(pd.attempts) >= 1
    /\ pd.attempts[1].met = "fail"
    /\ Exists(fs, OutPath(pd.attempts[1].output_name))
    /\ pd.attempts[1].file_path = None

\* C12: nothing is tried again.  For each clip of a batch ffmpeg is invoked
\* at most once, the fast strategy's fall back to the re-encode on crop
\* included, and it is the last thing the clip's extraction does; a clip
\* that failed is reported as failed, is not counted, and the next attempt
\* is the next clip: no clip is attempted a second time.
C12_NoRetries ==
    InBatch =>
        /\ Len(pd.attempts) <= Len(pd.clips)
        /\ \A j \in Attempted :
              /\ Len(FfmpegCalls(j)) <= 1
              /\ \A k \in 1..Len(pd.calls[j]) :
                    pd.calls[j][k].tool = "ffmpeg" => k = Len(pd.calls[j])
              /\ \A k \in Attempted : k # j => pd.attempts[k].i # pd.attempts[j].i
              /\ j > 1 => pd.attempts[j].i = pd.attempts[j - 1].i + 1
              /\ pd.attempts[j].met # "ok" =>
                    /\ pd.attempts[j].file_path = None
                    /\ ~pd.attempts[j].counted
                    /\ ~IsSuccessMsg(MsgLine(j).msg)

\* fast strategy with crop: ffmpeg fails on clip 1 after the fall back, it
\* ran once, and clip 2 is attempted next
C12_Witness ==
    /\ pd.pc = "done"
    /\ ~pd.precise_mode /\ pd.crop_vertical
    /\ Len(pd.attempts) >= 2
    /\ pd.attempts[1].met = "fail"
    /\ Len(FfmpegCalls(1)) = 1
    /\ Len(ResolveCalls(1)) = 2
    /\ pd.attempts[2].i = 2

(***************************************************************************)
(* Properties of the preview window, under SpecPreview.                    *)
(***************************************************************************)
\* the seconds of the clip the current preview was made for
InfoStart == parse_timestamp(current_clip_info.original_start).val

InfoEnd == parse_timestamp(current_clip_info.original_end).val

SlidersUnmoved ==
    /\ trim_start_slider = current_clip_info.start_relative
    /\ trim_end_slider = current_clip_info.end_relative

PreviewFiles(files) == {f \in files : f.path.dir = "previews"}

Trimmed == dp.pc = "done" /\ dp.calls # <<>>

\* C14 as claimed: once the trim of a preview file has ended, however it
\* ended, the preview file is gone.
C14_PreviewCleanedUp == Trimmed => ~Exists(fs, dp.calls[1].input)

\* C14 as the code has it: nothing is cleaned up.  The step in which
\* download_from_preview trims leaves every preview file as it was, and once
\* the trim has ended, however it ended, the file it read still exists and
\* is still the one current_preview_path names.
C14_PreviewKept ==
    [][ /\ dp.pc = "idle" /\ dp'.pc = "done" => PreviewFiles(fs') = PreviewFiles(fs)
        /\ Trimmed' =>
              /\ Exists(fs', dp'.calls[1].input)
              /\ dp'.calls[1].input = current_preview_path' ]_vars

\* the trim timed out, left a partial output, and the preview is still there
C14_Witness ==
    /\ Trimmed
    /\ dp.status = "Download failed"
    /\ Exists(fs, dp.calls[1].out)
    /\ FileAt(fs, dp.calls[1].out).content.kind = "partial"
    /\ Exists(fs, dp.calls[1].input)
    /\ FileAt(fs, dp.calls[1].input).content.kind = "copy"

(***************************************************************************)
(* Properties of parse_timestamps, under SpecParse.                        *)
(***************************************************************************)
\* the sample lines whose range has start >= end
BadRangeLines ==
    { <<"3", ":", "1", "5", "-", "2", ":", "3", "0">>,
      <<"5", ":", "0", "0", "-", "5", ":", "0", "0">> }

\* the sample lines of the shape M:SS - M:SS with start < end
ShapedLines ==
    { <<"1", ":", "0", "0", "-", "1", ":", "1", "0">>,
      <<" ", "0", ":", "0", "7", " ", " ", "-", "\t", "0", ":", "0", "9", "x", "\r">>,
      <<"2", ":", "3", "-", "2", ":", "9">> }

FreeForm == pt_pc = "done" /\ pt_pairs = <<>>

\* C4: every clip parse_timestamps returns has start_sec < end_sec, the
\* seconds being those of its two tokens; a line whose range has
\* start = end or start > end adds no clip and the call still returns.
C4_StartBeforeEnd ==
    pt_pc = "done" =>
      /\ \A k \in 1..Len(pt_clips) :
           /\ pt_clips[k].start_sec < pt_clips[k].end_sec
           /\ pt_clips[k].start_sec >= 0
           /\ parse_timestamp(pt_clips[k].start) = Some(pt_clips[k].start_sec)
           /\ parse_timestamp(pt_clips[k].end) = Some(pt_clips[k].end_sec)
      /\ pt_pairs = <<>> =>
           Len(pt_clips) <= Cardinality({k \in 1..Len(pt_lines) : pt_lines[k] \notin BadRangeLines})

\* "5:00-5:00", "1:00-1:10", "3:15-2:30" gives the one clip 60..70
C4_Witness ==
    /\ pt_pc = "done"
    /\ Len(pt_lines) = 3
    /\ pt_lines[1] \in BadRangeLines /\ pt_lines[3] \in BadRangeLines
    /\ pt_lines[1] # pt_lines[3]
    /\ Len(pt_clips) = 1
    /\ pt_clips[1].start_sec = 60 /\ pt_clips[1].end_sec = 70

\* C5: a list of pairs (start, end), 0 <= start < end, rendered one per line
\* as "M:SS-M:SS" and joined with newlines, parses to one clip per pair, in
\* order, with the pair's seconds.
C5_RoundTrip ==
    pt_pc = "done" /\ pt_pairs # <<>> =>
      /\ Len(pt_clips) = Len(pt_pairs)
      /\ \A k \in 1..Len(pt_pairs) :
           /\ pt_clips[k].start_sec = pt_pairs[k][1]
           /\ pt_clips[k].end_sec = pt_pairs[k][2]

\* (61, 600) then (0, 5): "1:01-10:00\n0:00-0:05"
C5_Witness ==
    /\ pt_pc = "done"
    /\ pt_pairs = << <<61, 600>>, <<0, 5>> >>
    /\ Len(pt_clips) = 2
    /\ pt_clips[1].end_sec = 600
    /\ pt_clips[2].start_sec = 0

\* C6: parse_timestamps returns for every input text, and a blank line, a
\* line not of the shape M:SS - M:SS or a line that fails conversion adds
\* no clip: the clips are those of the well-shaped lines, in order, the
\* same as when the other lines are absent.
C6_LinesIndependent ==
    FreeForm =>
      LET kept == SelectSeq(pt_lines, LAMBDA l : l \in ShapedLines) IN
      /\ Len(pt_clips) = Len(kept)
      /\ pt_clips = parse_timestamps(Join(kept))
      /\ \A k \in 1..Len(kept) : <<pt_clips[k]>> = parse_timestamps(kept[k])

\* "1:00-1:10", then a line that is skipped, then "2:3-2:9"
C6_Witness ==
    /\ FreeForm
    /\ Len(pt_lines) = 3
    /\ pt_lines[1] = <<"1", ":", "0", "0", "-", "1", ":", "1", "0">>
    /\ pt_lines[2] = <<"a", ":", "b", "c", "-", "d", ":", "e", "f">>
    /\ pt_lines[3] = <<"2", ":", "3", "-", "2", ":", "9">>
    /\ Len(pt_clips) = 2
    /\ pt_clips[2].start_sec = 123

(***************************************************************************)
(* Properties of the tool invocations of a batch, under SpecBlocking.      *)
(***************************************************************************)
\* every tool invocation recorded for the batch
BatchCalls == {pd.calls[j][k] : <<j, k>> \in {q \in (1..Len(pd.calls)) \X (1..3) : q[2] <= Len(pd.calls[q[1]])}}

\* C11: every invocation made while extracting a clip, the direct-URL
\* resolution as well as ffmpeg, carries an explicit timeout, so a batch
\* that is running can always take its next step and return its report;
\* a clip whose ffmpeg run timed out is reported as a timeout and the batch
\* goes on.
C11_BoundedByTimeouts ==
    /\ \A c \in BatchCalls : c.timeout # None
    /\ pd.pc \in {"idle", "done"} \/ ENABLED DownloadClip
    /\ \A j \in Attempted :
         pd.attempts[j].met = "timeout" => MsgLine(j).msg.kind = "timeout"

(***************************************************************************)
(* Properties of the range checks, under SpecRange.                        *)
(***************************************************************************)
DcCalled == dc.pc = "done"

DcFfmpegCalls == SelectSeq(dc.calls, LAMBDA c : c.tool = "ffmpeg")

BadSliders == trim_start_slider >= trim_end_slider

\* download_from_preview returned from one of its three early returns
DpRefusedNoTrim ==
    /\ dp.calls = <<>>
    /\ dp.files = <<>>
    /\ dp.status \in {"No preview available", "Preview file not found",
                      "Start time must be before end time"}

\* C13 as claimed: download_clip called with start >= end returns a failure
\* without resolving a URL and without invoking ffmpeg, and
\* download_from_preview called with trim_start_relative >=
\* trim_end_relative returns an error and no file without invoking the trim.
C13_EngineValidatesRange ==
    /\ DcCalled /\ dc.start_time >= dc.end_time =>
         /\ dc.calls = <<>>
         /\ dc.file_path = None
    /\ dp.pc = "done" /\ BadSliders => DpRefusedNoTrim

\* C13 as the code has it: the extraction functions do not compare start
\* and end.  download_clip called with start >= end resolves the direct URL
\* first, as for any range, and when the resolution succeeds invokes ffmpeg
\* once with the duration end - start, which is not positive; what it
\* returns is decided by how ffmpeg ends, never by the range.  In the
\* preview path download_from_preview called with trim_start_relative >=
\* trim_end_relative returns an error and no file without invoking the trim.
C13_RangeCheckedByCallers ==
    /\ DcCalled /\ dc.start_time >= dc.end_time =>
         /\ dc.calls # <<>>
         /\ dc.calls[1].tool = "yt_dlp"
         /\ Len(DcFfmpegCalls) <= 1
         /\ \A k \in 1..Len(DcFfmpegCalls) :
              /\ DcFfmpegCalls[k].t = dc.end_time - dc.start_time
              /\ DcFfmpegCalls[k].t <= 0
         /\ dc.msg.kind \in {"Downloaded (Fast)", "Downloaded (Precise)"} <=>
              dc.file_path # None
         /\ dc.file_path # None => DcFfmpegCalls # <<>>
    /\ dp.pc = "done" /\ BadSliders => DpRefusedNoTrim

\* download_clip called with 5..5 resolved the URL and invoked ffmpeg for
\* 0 seconds; ffmpeg failed and so did the call
C13_Witness ==
    /\ DcCalled
    /\ dc.start_time = 5 /\ dc.end_time = 5
    /\ Len(dc.calls) = 2
    /\ dc.calls[1].tool = "yt_dlp"
    /\ DcFfmpegCalls # <<>>
    /\ DcFfmpegCalls[1].t = 0
    /\ dc.file_path = None
    /\ dc.msg.kind = "error"

(***************************************************************************)
(* Properties of a batch and the handlers beside it, under SpecBeside.     *)
(***************************************************************************)
\* C15: the session state is not changed while a batch runs: every clip of
\* a batch is extracted from one source URL, the URL of the video that was
\* selected when the batch started.
C15_OneSourcePerBatch ==
    \A j \in Attempted : pd.attempts[j].video_url = pd.video_url

(***************************************************************************)
(* Properties of a session, under SpecSession.                             *)
(***************************************************************************)
\* the same record of the result list: the fields the provider gave and no
\* handler writes
SameRecord(v, w) == v.id = w.id /\ v.title = w.title

\* C16: once select_video_handler has resolved the url of a record, the url
\* is stable: the selected record with an id carries the watch URL of that
\* id, the record of the result list it came from carries the same url, so
\* that selecting it again recomputes the same url, and no step of any
\* handler (back navigation, previews, downloads, searches, another
\* selection of the same record) changes the url of the selected record.
C16_ResolvedUrlStable ==
    [][ /\ selected_video # None /\ selected_video' # None
           /\ SameRecord(selected_video, selected_video') =>
             selected_video'.url = selected_video.url
        /\ selected_video' # None /\ selected_video'.id # "" =>
             selected_video'.url = WatchUrl(selected_video'.id)
        /\ \A i \in 1..Len(search_results) :
             selected_video # None /\ search_results[i] = selected_video =>
               [search_results[i] EXCEPT !.url =
                   IF search_results[i].id # "" THEN WatchUrl(search_results[i].id)
                   ELSE search_results[i].url] = selected_video ]_vars

\* the record "a" was selected, a preview was trimmed and a batch ran, the
\* user is back on the search column, and the record of the list still
\* carries the resolved url: the next selection starts from a resolved record
C16_Witness ==
    /\ selected_video # None
    /\ selected_video.url = WatchUrl("a")
    /\ page = "search"
    /\ dp.pc = "done" /\ dp.calls # <<>>
    /\ pd.pc = "done"
    /\ Len(search_results) >= 1
    /\ search_results[1] = selected_video

\* the row index (from 0) of a selection that gives the step's selected_video
SelectedAt(index) ==
    /\ 0 <= index /\ index < Len(search_results)
    /\ selected_video' = [search_results[index + 1] EXCEPT
                            !.url = FullUrl(search_results[index + 1])]

\* C17: the selected video changes only through select_video_handler with
\* an index i, 0 <= i < len(search_results), and is then the record of row
\* i; a select with another index leaves it unchanged; perform_search,
\* whatever its outcome, leaves it unchanged, and so do go_back_to_search,
\* generate_preview_handler, download_from_preview and process_download;
\* once set it is never None again.  A search with a blank query, or that
\* failed or found nothing, leaves search_results unchanged, and a
\* successful one replaces the list by the list found; besides a search
\* only the selection's write of the url changes the list.
C17_SelectionFrame ==
    [][ /\ selected_video' # selected_video =>
             /\ \E index \in SelectIndexes :
                   SelectedAt(index) /\ select_video_handler(index)
             /\ page' = "video"
        /\ \A index \in SelectIndexes :
             select_video_handler(index) /\ ~(0 <= index /\ index < Len(search_results)) =>
               selected_video' = selected_video /\ search_results' = search_results
        /\ selected_video # None => selected_video' # None
        /\ \A query_blank \in BOOLEAN, found \in BOOLEAN, videos \in SearchSamples :
             perform_search(query_blank, found, videos) =>
               /\ selected_video' = selected_video
               /\ query_blank \/ ~found => search_results' = search_results
               /\ ~query_blank /\ found => search_results' = videos
        /\ search_results' # search_results =>
             \/ \E query_blank \in BOOLEAN, found \in BOOLEAN, videos \in SearchSamples :
                   perform_search(query_blank, found, videos)
             \/ \E index \in SelectIndexes : select_video_handler(index) ]_vars

\* the record "a" stayed selected while a successful search replaced the
\* list it came from, and a batch then ran on it
C17_Witness ==
    /\ selected_video # None
    /\ selected_video.id = "a"
    /\ search_results = << Video("", "C") >>
    /\ pd.pc = "done"
    /\ pd.attempts # <<>>
    /\ pd.video_url = WatchUrl("a")

\* the file at the stored preview path is what a successful preview of the
\* selected video wrote for the stored buffer
PreviewOfSelected ==
    /\ selected_video # None
    /\ current_preview_path # None
    /\ Exists(fs, current_preview_path)
    /\ LET f == FileAt(fs, current_preview_path) IN
         /\ f.content.kind = "copy"
         /\ f.content.input = DirectUrl(selected_video.url)
         /\ f.content.ss = current_buffer_start

\* a step of download_from_preview that invoked the trim
TrimInvoked ==
    /\ \E ffmpeg \in {"ok", "fail"} : download_from_preview(<<>>, FALSE, ffmpeg)
    /\ dp'.calls # <<>>

\* C18: whenever download_from_preview invokes the trim, the preview file
\* it trims was written by a successful preview of the video that is
\* selected at that moment and is the result of the most recent preview
\* request.
C18_TrimsPreviewOfSelected ==
    [][ TrimInvoked => PreviewOfSelected ]_vars

====
